---- MODULE Spec2Model ----
(***************************************************************************)
(* Model of the barbershop user service (FastAPI + SQLAlchemy on SQLite).  *)
(* State: the users table, the wall clock, the tokens handed out by login, *)
(* the last HTTP response, and the register requests that are in flight.   *)
(***************************************************************************)
EXTENDS Integers, Sequences, FiniteSets, TLC

VARIABLES users, now, issued, resp, reqs

vars == <<users, now, issued, resp, reqs>>

(* ------------------------------ bounds --------------------------------- *)
MaxId == 3
MaxTicks == 2

(* ------------------------- program constants --------------------------- *)
ACCESS_TOKEN_EXPIRE_MINUTES == 30
SECRET_KEY == "secret_key_123"
MinPasswordLength == 6

(* ------------------------------ inputs --------------------------------- *)
None == "None"
True == "True"
False == "False"
Bools == {True, False}
\* a request that carries no Authorization header
NoToken == [claims |-> [exp |-> 0], sig |-> "no_authorization_header"]
Emails == {"a@x.com", "b@x.com"}
UnknownEmail == "zz@x.com"
Usernames == {"a", "b"}
Passwords == {"secret1", "hunter22"}
ShortPassword == "abc"
EmptyPassword == ""
FirstNames == {"Ann"}
ForeignKey == "other_key"
Clients == {"c1", "c2"}

(* ------------------------- strings and integers ------------------------ *)
Digits == <<"0", "1", "2", "3", "4", "5", "6", "7", "8", "9">>

\* str(n) of a non-negative int: its decimal digits
RECURSIVE str(_)
str(n) == IF n < 10 THEN <<Digits[n + 1]>> ELSE str(n \div 10) \o <<Digits[(n % 10) + 1]>>

IsDigit(ch) == \E i \in 1..10 : Digits[i] = ch

DigitValue(ch) == (CHOOSE i \in 1..10 : Digits[i] = ch) - 1

RECURSIVE DigitsToInt(_)
DigitsToInt(s) ==
    IF s = <<>> THEN 0
    ELSE 10 * DigitsToInt(SubSeq(s, 1, Len(s) - 1)) + DigitValue(s[Len(s)])

\* a text operand compared with the INTEGER column id: SQLite converts text
\* that looks like an integer, any other text equals no integer
SqlIdOf(s) ==
    IF s # <<>> /\ \A i \in 1..Len(s) : IsDigit(s[i]) THEN DigitsToInt(s) ELSE 0

(* ------------------------- credential hasher --------------------------- *)
get_password_hash(password) == <<"bcrypt", password>>

\* a verification that accepts every password
verify_password_Always(plain_password, hashed_password) ==
    hashed_password[1] = "bcrypt"

verify_password(plain_password, hashed_password) ==
    hashed_password = <<"bcrypt", plain_password>>

(* ---------------------------- token service ---------------------------- *)
jwt_encode(claims, key) == [claims |-> claims, sig |-> key]

\* a decode that checks the signature only
jwt_decode_NoExpiry(token, key, t) ==
    IF token.sig # key THEN [error |-> "JWTError", claims |-> [exp |-> 0]]
    ELSE [error |-> "", claims |-> token.claims]

\* jwt.decode: JWTError on a bad signature or a past expiry, else the claims
jwt_decode(token, key, t) ==
    IF token.sig # key THEN [error |-> "JWTError", claims |-> [exp |-> 0]]
    ELSE IF token.claims.exp < t THEN [error |-> "JWTError", claims |-> [exp |-> 0]]
    ELSE [error |-> "", claims |-> token.claims]

\* a token that lives half the time asked for
create_access_token_HalfLife(subject, expires_delta, t) ==
    jwt_encode([exp |-> t + 15, sub |-> str(subject)], SECRET_KEY)

\* a zero or missing expires_delta falls back to the configured lifetime
create_access_token(subject, expires_delta, t) ==
    LET expire == IF expires_delta # 0 THEN t + expires_delta
                  ELSE t + ACCESS_TOKEN_EXPIRE_MINUTES
    IN  jwt_encode([exp |-> expire, sub |-> str(subject)], SECRET_KEY)

\* the parameters create_access_token declares, and the keywords the two
\* login handlers pass: a keyword outside the parameters is a TypeError
CreateAccessTokenParams == {"subject", "expires_delta"}
LoginCallKeywords == {"subject", "is_barber", "expires_delta"}

(* ------------------------------ user store ----------------------------- *)
\* Python truthiness of None, a bool or a string
Truthy(v) == v \notin {None, False, EmptyPassword}

Ids(store) == DOMAIN store

\* the query without its filter: the first row, whatever the id
get_user_Unfiltered(store, user_id) ==
    IF Ids(store) = {} THEN 0 ELSE CHOOSE i \in Ids(store) : \A j \in Ids(store) : i <= j

get_user(store, user_id) == IF user_id \in Ids(store) THEN user_id ELSE 0

get_user_by_email(store, email) ==
    IF \E i \in Ids(store) : store[i].email = email
    THEN CHOOSE i \in Ids(store) : store[i].email = email /\
                \A j \in Ids(store) : store[j].email = email => i <= j
    ELSE 0

\* the lookup filtering on the email column instead of the username column
get_user_by_username_WrongColumn(store, username) ==
    IF \E i \in Ids(store) : store[i].email = username
    THEN CHOOSE i \in Ids(store) : store[i].email = username
    ELSE 0

get_user_by_username(store, username) ==
    IF \E i \in Ids(store) : store[i].username = username
    THEN CHOOSE i \in Ids(store) : store[i].username = username /\
                \A j \in Ids(store) : store[j].username = username => i <= j
    ELSE 0

\* INTEGER PRIMARY KEY without AUTOINCREMENT: one more than the largest live id
NextId(store) ==
    IF Ids(store) = {} THEN 1
    ELSE (CHOOSE i \in Ids(store) : \A j \in Ids(store) : j <= i) + 1

\* the commit of a table that declares no UNIQUE index
IntegrityOK_NotUnique(store) ==
    \A i \in Ids(store) : store[i].email # None /\ store[i].username # None

\* the table's constraints, checked by the store at commit: NOT NULL and
\* UNIQUE on email and username (hashed_password is never assigned None)
IntegrityOK(store) ==
    /\ \A i \in Ids(store) :
          /\ store[i].email # None
          /\ store[i].username # None
    /\ \A i, j \in Ids(store) :
          i # j => /\ store[i].email # store[j].email
                   /\ store[i].username # store[j].username

Extend(store, id, rec) ==
    [i \in Ids(store) \cup {id} |-> IF i = id THEN rec ELSE store[i]]

Remove(store, id) == [i \in Ids(store) \ {id} |-> store[i]]

\* a DateTime column: NULL, or the time it was set
NullTime == <<>>
Timestamp(t) == <<t>>

crud_create_user(store, user) ==
    Extend(store, NextId(store),
           [email |-> user.email,
            username |-> user.username,
            first_name |-> user.first_name,
            hashed_password |-> get_password_hash(user.password),
            is_active |-> True,
            is_barber |-> user.is_barber,
            updated_at |-> NullTime])

\* user.dict(exclude_unset=True), the password replaced by its hash, then
\* every item that names an attribute of the row is assigned
UpdateData(user) ==
    IF "password" \in DOMAIN user /\ Truthy(user["password"])
    THEN [f \in (DOMAIN user \ {"password"}) \cup {"hashed_password"} |->
             IF f = "hashed_password" THEN get_password_hash(user["password"])
             ELSE user[f]]
    ELSE user

UserColumns ==
    {"email", "username", "first_name", "hashed_password", "is_active", "is_barber"}

\* the attributes of the row after the assignments of update_data
Assigned(row, update_data) ==
    [f \in UserColumns |-> IF f \in DOMAIN update_data THEN update_data[f] ELSE row[f]]

\* the flush emits an UPDATE, and with it onupdate=func.now(), only when an
\* attribute has a new value (a rehashed password always has: the salt is new)
Dirty(row, update_data) ==
    \/ "hashed_password" \in DOMAIN update_data
    \/ \E f \in UserColumns : Assigned(row, update_data)[f] # row[f]

\* a full overwrite: a first name that the payload leaves unset is written
\* as NULL, and the timestamp is always bumped
crud_update_user_Overwrite(store, user_id, user, t) ==
    LET db_user == get_user(store, user_id)
        update_data == UpdateData(user)
    IN  IF db_user = 0 THEN store
        ELSE [store EXCEPT ![db_user] =
                 [f \in UserColumns \cup {"updated_at"} |->
                     IF f = "updated_at" THEN Timestamp(t)
                     ELSE IF f \in DOMAIN update_data THEN update_data[f]
                     ELSE IF f = "first_name" THEN None
                     ELSE store[db_user][f]]]

crud_update_user(store, user_id, user, t) ==
    LET db_user == get_user(store, user_id)
        update_data == UpdateData(user)
    IN  IF db_user = 0 THEN store
        ELSE [store EXCEPT ![db_user] =
                 [f \in UserColumns \cup {"updated_at"} |->
                     IF f = "updated_at"
                     THEN IF Dirty(store[db_user], update_data)
                          THEN Timestamp(t) ELSE store[db_user].updated_at
                     ELSE Assigned(store[db_user], update_data)[f]]]

\* a delete that is not restricted to the row looked up
crud_delete_user_All(store, user_id) ==
    LET db_user == get_user(store, user_id)
    IN  IF db_user = 0 THEN store ELSE <<>>

crud_delete_user(store, user_id) ==
    LET db_user == get_user(store, user_id)
    IN  IF db_user = 0 THEN store ELSE Remove(store, db_user)

\* rows in the store's default order (by id), as a sequence of ids
RECURSIVE Ordered(_)
Ordered(S) ==
    IF S = {} THEN <<>>
    ELSE LET m == CHOOSE i \in S : \A j \in S : i <= j
         IN  <<m>> \o Ordered(S \ {m})

\* OFFSET skip LIMIT limit as SQLite evaluates them: a negative offset is
\* zero and a negative limit is no limit
Window(seq, skip, limit) ==
    LET offset == IF skip < 0 THEN 0 ELSE skip
        last == IF limit < 0 \/ offset + limit > Len(seq) THEN Len(seq)
                ELSE offset + limit
    IN  SubSeq(seq, offset + 1, last)

get_users(store, skip, limit) == Window(Ordered(Ids(store)), skip, limit)

get_barbers(store, skip, limit) ==
    Window(Ordered({i \in Ids(store) : store[i].is_barber = True}), skip, limit)

\* response_model=UserSchema: is_active and is_barber must be bools
Serializable(store, id) ==
    store[id].is_active \in Bools /\ store[id].is_barber \in Bools

(* --------------------------- access control ---------------------------- *)
\* the outcome of a dependency: the resolved user, or the HTTPException
\* raised and the place that raised it
Ok(id) == [status |-> 200, detail |-> "", raised |-> "", user |-> id]
Fail(status, detail, raised, id) ==
    [status |-> status, detail |-> detail, raised |-> raised, user |-> id]

get_current_user(store, token, t) ==
    IF token = NoToken THEN Fail(401, "Not authenticated", "oauth2_scheme", 0)
    ELSE LET decoded == jwt_decode(token, SECRET_KEY, t)
             payload == decoded.claims
         IN  IF decoded.error = "JWTError"
             THEN Fail(401, "Could not validate credentials", "JWTError", 0)
             ELSE IF "sub" \notin DOMAIN payload
             THEN Fail(401, "Could not validate credentials", "no_sub", 0)
             ELSE LET user == get_user(store, SqlIdOf(payload.sub))
                  IN  IF user = 0
                      THEN Fail(401, "Could not validate credentials", "no_user", 0)
                      ELSE IF ~Truthy(store[user].is_active)
                           THEN Fail(400, "Inactive user", "inactive", user)
                      ELSE Ok(user)

\* the role looked at before the account is known to be active
get_barber_user_RoleFirst(store, token, t) ==
    LET current_user == get_current_user(store, token, t)
    IN  IF current_user.user # 0 /\ ~Truthy(store[current_user.user].is_barber)
        THEN Fail(403, "Not enough permissions", "not_barber", current_user.user)
        ELSE current_user

\* the role gate that lets every authenticated user through
get_barber_user_NoRoleCheck(store, token, t) == get_current_user(store, token, t)

get_barber_user(store, token, t) ==
    LET current_user == get_current_user(store, token, t)
    IN  IF current_user.status # 200 THEN current_user
        ELSE IF ~Truthy(store[current_user.user].is_barber)
             THEN Fail(403, "Not enough permissions", "not_barber", current_user.user)
        ELSE current_user

\* the permission check with the negation lost
NotPermitted_Inverted(store, current_user, user_id) ==
    current_user # user_id /\ Truthy(store[current_user].is_barber)

\* the permission check of PUT /api/users/{user_id}
NotPermitted(store, current_user, user_id) ==
    current_user # user_id /\ ~Truthy(store[current_user].is_barber)

(* ------------------------------ responses ------------------------------ *)
Bearer == "WWW-Authenticate: Bearer"

NoLogin == [email |-> "", password |-> ""]

NoPage == [skip |-> 0, limit |-> 0]

\* the UserUpdate body that sets the one field f to v, and the empty body
Body(f, v) == [g \in {f} |-> v]

EmptyBody == <<>>

\* the last request answered: the operation, its status, detail and headers
\* and the token in its body; and, for the record, the request it answers
\* (the token presented, the id in the path, the update body, the login
\* credentials), the caller the token resolved to and the dependency that
\* raised
Response(op, status, detail, headers, caller, target, token) ==
    [op |-> op, status |-> status, detail |-> detail, headers |-> headers,
     token |-> token, caller |-> caller, raised |-> "",
     target |-> target, presented |-> NoToken, body |-> EmptyBody, login |-> NoLogin,
     listed |-> <<>>, page |-> NoPage]

\* the answer r to a list request for the window (skip, limit): the ids of
\* the records in the body, in order
Listing(skip, limit, listed, r) ==
    [r EXCEPT !.listed = listed, !.page = [skip |-> skip, limit |-> limit]]

\* the answer r, filed with the request it answers
Answer(token, user_id, user, r) ==
    [r EXCEPT !.presented = token, !.target = user_id, !.body = user]

\* the response of a request that a dependency rejected
Rejected(op, auth, target) ==
    [Response(op, auth.status, auth.detail,
              IF auth.detail = "Could not validate credentials" THEN Bearer ELSE "",
              auth.user, target, NoToken)
        EXCEPT !.raised = auth.raised]

ServerError(op, caller, target) ==
    Response(op, 500, "Internal Server Error", "", caller, target, NoToken)

(* ------------------------------- inputs -------------------------------- *)
ExpValues == {k * ACCESS_TOKEN_EXPIRE_MINUTES : k \in 0..MaxTicks}
LastExp == MaxTicks * ACCESS_TOKEN_EXPIRE_MINUTES
UserIds == 1..MaxId

\* a well-signed token for user i that does not expire within the run
TokenOf(i) == jwt_encode([exp |-> LastExp, sub |-> str(i)], SECRET_KEY)
ValidTokens == {TokenOf(i) : i \in UserIds}

\* no header, a foreign signature, no sub claim, a sub that is no id, a
\* token of user 1 that expires with the first tick, a lasting token of the
\* first two ids, and the tokens that login has issued
Tokens ==
    {NoToken, jwt_encode([exp |-> LastExp, sub |-> str(1)], ForeignKey),
     jwt_encode([exp |-> LastExp], SECRET_KEY),
     jwt_encode([exp |-> LastExp, sub |-> <<"x">>], SECRET_KEY),
     jwt_encode([exp |-> 0, sub |-> str(1)], SECRET_KEY),
     TokenOf(1), TokenOf(2)}
    \cup issued

Draft(email, username, password, is_barber) ==
    [email |-> email, username |-> username, first_name |-> None,
     password |-> password, is_barber |-> is_barber]

Drafts ==
    {Draft(e, u, p, b) : e \in Emails, u \in Usernames,
                         p \in {"secret1", ShortPassword}, b \in Bools}

UpdateFields == {"email", "username", "first_name", "password", "is_active", "is_barber"}

FieldValues(f) ==
    CASE f = "email" -> Emails \cup {None}
      [] f = "username" -> Usernames \cup {None}
      [] f = "first_name" -> FirstNames \cup {None}
      [] f = "password" -> Passwords \cup {EmptyPassword, None}
      [] f = "is_active" -> Bools \cup {None}
      [] f = "is_barber" -> Bools \cup {None}

(* -------------------------------- Init --------------------------------- *)
Idle == [pc |-> "idle", user |-> [email |-> "", username |-> ""],
         status |-> 0, detail |-> "", rival |-> "none"]

Init ==
    /\ users = <<>>
    /\ now = 0
    /\ issued = {}
    /\ resp = Response("startup", 200, "", "", 0, 0, NoToken)
    /\ reqs = [c \in Clients |-> Idle]

(* ------------------------------- clock --------------------------------- *)
Tick ==
    /\ now + ACCESS_TOKEN_EXPIRE_MINUTES <= MaxTicks * ACCESS_TOKEN_EXPIRE_MINUTES
    /\ now' = now + ACCESS_TOKEN_EXPIRE_MINUTES
    /\ resp' = Response("tick", 200, "", "", 0, 0, NoToken)
    /\ UNCHANGED <<users, issued, reqs>>

(* ------------------------------ register ------------------------------- *)
\* POST /api/users/ handled without interleaving
create_user(user) ==
    /\ IF Len(user.password) < MinPasswordLength
       THEN /\ resp' = Response("create_user", 422, "validation error", "", 0, 0, NoToken)
            /\ users' = users
       ELSE IF get_user_by_email(users, user.email) # 0
       THEN /\ resp' = Response("create_user", 400, "Email already registered", "", 0, 0, NoToken)
            /\ users' = users
       ELSE IF get_user_by_username(users, user.username) # 0
       THEN /\ resp' = Response("create_user", 400, "Username already taken", "", 0, 0, NoToken)
            /\ users' = users
       ELSE LET created == crud_create_user(users, user)
            IN  /\ NextId(users) <= MaxId
                /\ IF IntegrityOK(created)
                   THEN /\ users' = created
                        /\ resp' = Response("create_user", 201, "", "", 0, NextId(users), NoToken)
                   ELSE /\ users' = users
                        /\ resp' = ServerError("create_user", 0, 0)
    /\ UNCHANGED <<now, issued, reqs>>

(* -------------------------------- login -------------------------------- *)
Login(op, headers, email, password) ==
    LET user == get_user_by_email(users, email)
        answer(r) == [r EXCEPT !.login = [email |-> email, password |-> password]]
    IN  /\ IF user = 0 \/ ~verify_password(password, users[user].hashed_password)
           THEN /\ resp' = answer(Response(op, 401, "Incorrect email or password",
                                           headers, 0, 0, NoToken))
                /\ issued' = issued
           ELSE IF LoginCallKeywords \subseteq CreateAccessTokenParams
           THEN LET access_token ==
                        create_access_token(user, ACCESS_TOKEN_EXPIRE_MINUTES, now)
                IN  /\ resp' = answer(Response(op, 200, "", "", user, 0, access_token))
                    /\ issued' = issued \cup {access_token}
           ELSE /\ resp' = answer(ServerError(op, user, 0))
                /\ issued' = issued
        /\ UNCHANGED <<users, now, reqs>>

login_for_access_token(username, password) ==
    Login("login_for_access_token", Bearer, username, password)

login_with_email(email, password) ==
    Login("login_with_email", "", email, password)

(* ------------------------- protected operations ------------------------ *)
read_users(token, skip, limit) ==
    LET auth == get_current_user(users, token, now)
        listed == get_users(users, skip, limit)
        answer == IF auth.status # 200 THEN Rejected("read_users", auth, 0)
                  ELSE IF \A k \in 1..Len(listed) : Serializable(users, listed[k])
                  THEN Listing(skip, limit, listed,
                               Response("read_users", 200, "", "", auth.user, 0, NoToken))
                  ELSE ServerError("read_users", auth.user, 0)
    IN  /\ resp' = Answer(token, 0, EmptyBody, answer)
        /\ UNCHANGED <<users, now, issued, reqs>>

read_users_me(token) ==
    LET auth == get_current_user(users, token, now)
        answer == IF auth.status # 200 THEN Rejected("read_users_me", auth, 0)
                  ELSE IF Serializable(users, auth.user)
                  THEN Response("read_users_me", 200, "", "", auth.user, 0, NoToken)
                  ELSE ServerError("read_users_me", auth.user, 0)
    IN  /\ resp' = Answer(token, 0, EmptyBody, answer)
        /\ UNCHANGED <<users, now, issued, reqs>>

read_user(token, user_id) ==
    LET auth == get_current_user(users, token, now)
        answer == IF auth.status # 200 THEN Rejected("read_user", auth, user_id)
                  ELSE IF get_user(users, user_id) = 0
                  THEN Response("read_user", 404, "User not found", "",
                                auth.user, user_id, NoToken)
                  ELSE IF Serializable(users, user_id)
                  THEN Response("read_user", 200, "", "", auth.user, user_id, NoToken)
                  ELSE ServerError("read_user", auth.user, user_id)
    IN  /\ resp' = Answer(token, user_id, EmptyBody, answer)
        /\ UNCHANGED <<users, now, issued, reqs>>

update_user(token, user_id, user) ==
    LET auth == get_current_user(users, token, now)
        updated == crud_update_user(users, user_id, user, now)
        answer(r) == Answer(token, user_id, user, r)
    IN  /\ IF auth.status # 200
           THEN /\ resp' = answer(Rejected("update_user", auth, user_id))
                /\ users' = users
           ELSE IF get_user(users, user_id) = 0
           THEN /\ resp' = answer(Response("update_user", 404, "User not found", "",
                                           auth.user, user_id, NoToken))
                /\ users' = users
           ELSE IF NotPermitted(users, auth.user, user_id)
           THEN /\ resp' = answer(Response("update_user", 403, "Not enough permissions", "",
                                           auth.user, user_id, NoToken))
                /\ users' = users
           ELSE IF ~IntegrityOK(updated)
           THEN /\ resp' = answer(ServerError("update_user", auth.user, user_id))
                /\ users' = users
           ELSE /\ users' = updated
                /\ resp' = answer(IF Serializable(updated, get_user(updated, user_id))
                                  THEN Response("update_user", 200, "", "",
                                                auth.user, user_id, NoToken)
                                  ELSE ServerError("update_user", auth.user, user_id))
        /\ UNCHANGED <<now, issued, reqs>>

delete_user(token, user_id) ==
    LET auth == get_barber_user(users, token, now)
        answer(r) == Answer(token, user_id, EmptyBody, r)
    IN  /\ IF auth.status # 200
           THEN /\ resp' = answer(Rejected("delete_user", auth, user_id))
                /\ users' = users
           ELSE IF crud_delete_user(users, user_id) = users
           THEN /\ resp' = answer(Response("delete_user", 404, "User not found", "",
                                           auth.user, user_id, NoToken))
                /\ users' = users
           ELSE /\ users' = crud_delete_user(users, user_id)
                /\ resp' = answer(Response("delete_user", 204, "", "",
                                           auth.user, user_id, NoToken))
        /\ UNCHANGED <<now, issued, reqs>>

(* --------------------------- public listing ---------------------------- *)
read_barbers(skip, limit) ==
    LET listed == get_barbers(users, skip, limit)
    IN  /\ resp' = IF \A k \in 1..Len(listed) : Serializable(users, listed[k])
                   THEN Listing(skip, limit, listed,
                                Response("read_barbers", 200, "", "", 0, 0, NoToken))
                   ELSE Listing(skip, limit, <<>>, ServerError("read_barbers", 0, 0))
        /\ UNCHANGED <<users, now, issued, reqs>>

(* ------------------- register, one statement at a time ----------------- *)
\* a client sends POST /api/users/ and the handler is entered
create_user_begin(c, user) ==
    /\ reqs[c].pc \in {"idle", "done"}
    /\ reqs' = [reqs EXCEPT ![c] = [pc |-> "check_email", user |-> user,
                                    status |-> 0, detail |-> "", rival |-> "none"]]
    /\ UNCHANGED <<users, now, issued, resp>>

\* the handler has answered: the request keeps its outcome, not its body
Done(r, status, detail) ==
    [pc |-> "done", user |-> Idle.user, status |-> status, detail |-> detail,
     rival |-> r.rival]

create_user_check_email(c) ==
    /\ reqs[c].pc = "check_email"
    /\ reqs' = [reqs EXCEPT ![c] =
                   IF get_user_by_email(users, reqs[c].user.email) # 0
                   THEN Done(reqs[c], 400, "Email already registered")
                   ELSE [reqs[c] EXCEPT !.pc = "check_username"]]
    /\ UNCHANGED <<users, now, issued, resp>>

create_user_check_username(c) ==
    /\ reqs[c].pc = "check_username"
    /\ reqs' = [reqs EXCEPT ![c] =
                   IF get_user_by_username(users, reqs[c].user.username) # 0
                   THEN Done(reqs[c], 400, "Username already taken")
                   ELSE [reqs[c] EXCEPT !.pc = "insert"]]
    /\ UNCHANGED <<users, now, issued, resp>>

\* two drafts that cannot both be stored
Clash(u, v) == u.email = v.email \/ u.username = v.username

\* db.add, db.commit: the row is stored unless a constraint rejects it; a
\* request that has finished its lookups and is about to insert a clashing
\* draft learns which client won the race (rival, a history variable)
create_user_insert(c) ==
    LET created == crud_create_user(users, reqs[c].user)
    IN  /\ reqs[c].pc = "insert"
        /\ NextId(users) <= MaxId
        /\ IF IntegrityOK(created)
           THEN /\ users' = created
                /\ reqs' = [d \in Clients |->
                              IF d = c THEN Done(reqs[c], 201, "")
                              ELSE IF reqs[d].pc = "insert" /\ Clash(reqs[d].user, reqs[c].user)
                                   THEN [reqs[d] EXCEPT !.rival = c]
                              ELSE reqs[d]]
           ELSE /\ users' = users
                /\ reqs' = [reqs EXCEPT ![c] = Done(reqs[c], 500, "Internal Server Error")]
        /\ UNCHANGED <<now, issued, resp>>

(* --------------------------- specifications ---------------------------- *)
\* concurrent registration against updates and deletes
RaceDrafts == {Draft(e, u, "secret1", True) : e \in Emails, u \in Usernames}

RaceBodies == {Body("email", "a@x.com"), Body("username", "a")}

RaceTokens == {TokenOf(1)}

NextRace ==
    \/ \E c \in Clients, user \in RaceDrafts : create_user_begin(c, user)
    \/ \E c \in Clients : create_user_check_email(c)
    \/ \E c \in Clients : create_user_check_username(c)
    \/ \E c \in Clients : create_user_insert(c)
    \/ \E t \in RaceTokens, i \in UserIds, p \in RaceBodies : update_user(t, i, p)
    \/ \E t \in RaceTokens, i \in UserIds : delete_user(t, i)

SpecRace == Init /\ [][NextRace]_vars

\* the access-control dependency in front of every protected operation
AuthDrafts == {Draft("a@x.com", "a", "secret1", b) : b \in Bools}
                \cup {Draft("b@x.com", "b", "secret1", b) : b \in Bools}

AuthBodies == {Body("is_active", False)}

\* the ids in the path of the protected requests
AuthTargets == {1, 2}

NextAuth ==
    \/ Tick
    \/ \E user \in AuthDrafts : create_user(user)
    \/ \E t \in Tokens : read_users(t, 0, 100)
    \/ \E t \in Tokens : read_users_me(t)
    \/ \E t \in Tokens, i \in AuthTargets : read_user(t, i)
    \/ \E t \in Tokens, i \in AuthTargets, p \in AuthBodies : update_user(t, i, p)
    \/ \E t \in Tokens, i \in AuthTargets : delete_user(t, i)

SpecAuth == Init /\ [][NextAuth]_vars

\* the public endpoints (registration, the two logins, the barber listing),
\* with updates and deletes
LoginBodies == {Body("password", p) : p \in Passwords \cup {EmptyPassword}}
                 \cup {Body("email", e) : e \in Emails}

\* the callers of the updates and deletes: the first two users registered
CallerTokens == {TokenOf(1), TokenOf(2)}

Next ==
    \/ \E user \in Drafts : create_user(user)
    \/ \E e \in Emails \cup {UnknownEmail}, p \in Passwords : login_for_access_token(e, p)
    \/ \E e \in Emails \cup {UnknownEmail}, p \in Passwords : login_with_email(e, p)
    \/ \E i \in UserIds, p \in LoginBodies : update_user(TokenOf(i), i, p)
    \/ \E t \in CallerTokens, i \in UserIds : delete_user(t, i)
    \/ read_barbers(0, 100)

Spec == Init /\ [][Next]_vars

\* the permission rules of update and delete
PermBodies ==
    {EmptyBody, Body("email", None), Body("username", "a")}
      \cup {Body("email", e) : e \in Emails} \cup {Body("is_barber", b) : b \in Bools \cup {None}}

PermDrafts == AuthDrafts

NextPerm ==
    \/ \E user \in PermDrafts : create_user(user)
    \/ \E t \in CallerTokens, i \in UserIds, p \in PermBodies : update_user(t, i, p)
    \/ \E t \in CallerTokens, i \in UserIds : delete_user(t, i)

SpecPerm == Init /\ [][NextPerm]_vars

\* the field-presence-aware merge of update, with the clock for its timestamp
MergeBodies ==
    {EmptyBody, Body("first_name", "Ann"), Body("first_name", None),
     Body("password", "hunter22"), Body("password", EmptyPassword),
     [first_name |-> "Ann", email |-> "b@x.com"]}

NextMerge ==
    \/ Tick
    \/ \E user \in AuthDrafts : create_user(user)
    \/ \E i \in AuthTargets, p \in MergeBodies : update_user(TokenOf(i), i, p)

SpecMerge == Init /\ [][NextMerge]_vars

\* the lifetime of a token: the tokens that create_access_token makes for
\* the first id at the clock values before the last, presented while the
\* clock runs and passwords, active flags and records change
IssueTimes == ExpValues \ {LastExp}

TokenSubjects == {1}

MintedTokens ==
    {create_access_token(i, ACCESS_TOKEN_EXPIRE_MINUTES, t) : i \in TokenSubjects, t \in IssueTimes}

TokenBodies == {Body("password", "hunter22"), Body("is_active", False)}

NextToken ==
    \/ Tick
    \/ \E user \in AuthDrafts : create_user(user)
    \/ login_for_access_token("a@x.com", "secret1")
    \/ login_with_email("a@x.com", "secret1")
    \/ \E t \in MintedTokens : read_users_me(t)
    \/ \E t \in MintedTokens, i \in TokenSubjects, p \in TokenBodies : update_user(t, i, p)
    \/ \E t \in MintedTokens, i \in AuthTargets : delete_user(t, i)

SpecToken == Init /\ [][NextToken]_vars

\* the public barber listing over every window, next to registrations,
\* changes of the barber flag and deletes
Pages == (-1)..2

ListBodies == {Body("is_barber", b) : b \in Bools} \cup {Body("is_active", None)}

NextList ==
    \/ \E user \in AuthDrafts : create_user(user)
    \/ \E i \in AuthTargets, p \in ListBodies : update_user(TokenOf(i), i, p)
    \/ \E i \in AuthTargets : delete_user(TokenOf(1), i)
    \/ \E skip \in Pages, limit \in Pages : read_barbers(skip, limit)

SpecList == Init /\ [][NextList]_vars

(* ------------------------------- claims -------------------------------- *)
\* C1: in every reachable state no two live user records share an email and
\* no two share a username, whatever register, update and delete requests
\* (successful or failed, registrations interleaved) have been handled
C1_UniqueEmailAndUsername ==
    \A i, j \in DOMAIN users :
        i # j => users[i].email # users[j].email /\ users[i].username # users[j].username

\* two live records, and the last update was refused by the store
C1_Witness ==
    /\ Cardinality(DOMAIN users) = 2
    /\ resp.op = "update_user" /\ resp.status = 500
    /\ \E c \in Clients : reqs[c].pc = "done" /\ reqs[c].status = 500

\* C2: of two register requests that race on an email or a username, the one
\* that does not create the user observes the 400 conflict and no other failure
C2_RaceLoserSeesConflict ==
    \A c \in Clients :
        (reqs[c].pc = "done" /\ reqs[c].rival # "none" /\ reqs[c].status # 201)
            => /\ reqs[c].status = 400
               /\ reqs[c].detail \in {"Email already registered", "Username already taken"}

\* what the claims say of the store, stated on the rows themselves
EmailLive(email) == \E i \in DOMAIN users : users[i].email = email
UsernameLive(username) == \E i \in DOMAIN users : users[i].username = username
ValidDrafts == {user \in Drafts : Len(user.password) >= MinPasswordLength}
Conflict(detail) ==
    /\ resp'.op = "create_user" /\ resp'.status = 400 /\ resp'.detail = detail
    /\ users' = users

\* C3 (as claimed): a register request whose email is a live user's email is
\* rejected with 400 'Email already registered', and one whose username is a
\* live user's username with 400 'Username already taken'; the store is unchanged
C3_AsClaimed ==
    [][\A user \in ValidDrafts :
          create_user(user) =>
              /\ EmailLive(user.email) => Conflict("Email already registered")
              /\ UsernameLive(user.username) => Conflict("Username already taken")]_vars

\* C3 (amended): the email is looked up first, so 'Username already taken' is
\* the answer only when the email is not registered
C3_ConflictRejected ==
    [][\A user \in ValidDrafts :
          create_user(user) =>
              /\ EmailLive(user.email) => Conflict("Email already registered")
              /\ (~EmailLive(user.email) /\ UsernameLive(user.username))
                    => Conflict("Username already taken")]_vars

C3_Witness ==
    /\ resp.op = "create_user" /\ resp.status = 400
    /\ resp.detail = "Username already taken"
    /\ users # <<>>

\* the credentials are those of a live user
CredentialsOf(i, email, password) ==
    /\ i \in DOMAIN users
    /\ users[i].email = email
    /\ users[i].hashed_password = get_password_hash(password)

\* C4: a login (either endpoint) with a live user's email and current password
\* answers 200 with a token that verification accepts as that user
C4_LoginIssuesToken ==
    [][\A email \in Emails, password \in Passwords, i \in UserIds :
          ((login_for_access_token(email, password) \/ login_with_email(email, password))
             /\ CredentialsOf(i, email, password))
          => /\ resp'.status = 200
             /\ get_current_user(users', resp'.token, now') = Ok(i)]_vars

\* what the client sees of a response
Outcome(r) == [status |-> r.status, detail |-> r.detail, headers |-> r.headers,
               token |-> r.token]

InvalidCredentials(headers) ==
    [status |-> 401, detail |-> "Incorrect email or password", headers |-> headers,
     token |-> NoToken]

\* C5: on each login endpoint an unknown email and a wrong password get the
\* same 401 answer, no token is issued and nothing changes
C5_UniformLoginFailure ==
    [][(/\ resp'.op \in {"login_for_access_token", "login_with_email"}
        /\ \A i \in UserIds :
              ~CredentialsOf(i, resp'.login.email, resp'.login.password))
          => /\ Outcome(resp') =
                   InvalidCredentials(IF resp'.op = "login_for_access_token"
                                      THEN Bearer ELSE "")
             /\ UNCHANGED <<users, issued>>]_vars

\* a wrong password for a registered email was answered
C5_Witness ==
    /\ resp.op = "login_with_email" /\ resp.status = 401
    /\ EmailLive(resp.login.email)

\* the operations behind get_current_user (delete: behind get_barber_user)
ProtectedOps == {"read_users", "read_users_me", "read_user", "update_user", "delete_user"}

\* no header, a signature that is not ours, a past expiry, no subject, or a
\* subject that is the id of no live user
Unauthenticated(t) ==
    IF t = NoToken \/ t.sig # SECRET_KEY THEN TRUE
    ELSE IF t.claims.exp < now \/ "sub" \notin DOMAIN t.claims THEN TRUE
    ELSE \A i \in DOMAIN users : str(i) # t.claims.sub

\* C6: a protected operation invoked without a token, with a token that fails
\* verification or with a token whose subject is no existing user ends in 401
\* and leaves the store unchanged
C6_UnauthenticatedRejected ==
    [][(resp'.op \in ProtectedOps /\ Unauthenticated(resp'.presented))
          => resp'.status = 401 /\ users' = users]_vars

\* a well-signed, unexpired token of a user that is not in the (non-empty)
\* store was presented to update
C6_Witness ==
    /\ resp.op = "update_user" /\ resp.status = 401
    /\ resp.presented \in ValidTokens
    /\ users # <<>>

\* t is a valid, unexpired token of the live user i
TokenFor(t, i) ==
    /\ t # NoToken /\ t.sig = SECRET_KEY /\ t.claims.exp >= now
    /\ "sub" \in DOMAIN t.claims
    /\ i \in DOMAIN users /\ str(i) = t.claims.sub

\* C7: a protected request with a valid token of an existing user whose active
\* flag is false gets 400 'Inactive user' and changes nothing, on every
\* protected operation, the delete gate included (before the barber check)
C7_InactiveRejected ==
    [][\A i \in UserIds :
          (resp'.op \in ProtectedOps /\ TokenFor(resp'.presented, i)
             /\ users[i].is_active = False)
              => /\ resp'.status = 400 /\ resp'.detail = "Inactive user"
                 /\ users' = users]_vars

\* an inactive user who is no barber was answered 400, not 403, by delete
C7_Witness ==
    /\ resp.op = "delete_user" /\ resp.status = 400
    /\ \E i \in DOMAIN users :
          /\ TokenFor(resp.presented, i)
          /\ users[i].is_active = False
          /\ users[i].is_barber = False

\* the store accepts body p for the row i: email and username stay non-null
\* and unlike those of every other row
Accepted(i, p) ==
    /\ "email" \in DOMAIN p =>
          p["email"] # None /\ \A j \in DOMAIN users \ {i} : users[j].email # p["email"]
    /\ "username" \in DOMAIN p =>
          p["username"] # None /\ \A j \in DOMAIN users \ {i} : users[j].username # p["username"]

\* the row i carries, after the step, every column value that body p sets
Applied(i, p) ==
    /\ i \in DOMAIN users'
    /\ \A f \in DOMAIN p \cap UserColumns : users'[i][f] = p[f]

IsBarber(c) == users[c].is_barber = True

\* the step answers an update of the existing user i by the authenticated c
UpdateBy(c, i) ==
    /\ resp'.op = "update_user" /\ resp'.target = i
    /\ TokenFor(resp'.presented, c) /\ users[c].is_active = True
    /\ i \in DOMAIN users

C9_MissingTargetIs404 ==
    [][\A c \in UserIds :
          (resp'.op = "update_user" /\ TokenFor(resp'.presented, c)
             /\ users[c].is_active = True /\ resp'.target \notin DOMAIN users)
              => /\ resp'.status = 404 /\ resp'.detail = "User not found"
                 /\ users' = users]_vars

\* a caller who is no barber got 404 for an id that is not in the store
C9_Witness ==
    /\ resp.op = "update_user" /\ resp.status = 404
    /\ resp.caller \in DOMAIN users
    /\ users[resp.caller].is_barber = False
    /\ resp.target \notin DOMAIN users

\* C10: a delete by an authenticated caller whose stored barber flag is not
\* true gets 403 and removes nothing, whatever the target: the caller's own
\* record, another record or an id that is not in the store
C10_DeleteNeedsBarber ==
    [][\A c \in UserIds :
          (resp'.op = "delete_user" /\ TokenFor(resp'.presented, c)
             /\ users[c].is_active = True /\ users[c].is_barber \in {False, None})
              => /\ resp'.status = 403 /\ resp'.detail = "Not enough permissions"
                 /\ users' = users]_vars

\* a user who is no barber was refused the delete of an id that is not in
\* the store, where nobody is a barber any more
C10_Witness ==
    /\ resp.op = "delete_user" /\ resp.status = 403
    /\ resp.caller \in DOMAIN users
    /\ resp.target \notin DOMAIN users
    /\ \A i \in DOMAIN users : users[i].is_barber \in {False, None}
    /\ Cardinality(DOMAIN users) = 2

\* the token t authenticates the live, active user c
Authenticates(t, c) == TokenFor(t, c) /\ users[c].is_active = True

\* C11: a barber's delete of an existing id answers 204 and removes exactly
\* that record, every other record unchanged; a barber's delete of an id that
\* is not in the store answers 404 and changes nothing; an authenticated
\* get-by-id that follows a successful delete of that id answers 404
C11_BarberDeletes ==
    [][/\ \A c \in UserIds :
            (resp'.op = "delete_user" /\ Authenticates(resp'.presented, c)
               /\ users[c].is_barber = True)
                => IF resp'.target \in DOMAIN users
                   THEN /\ resp'.status = 204
                        /\ DOMAIN users' = DOMAIN users \ {resp'.target}
                        /\ \A j \in DOMAIN users' : users'[j] = users[j]
                   ELSE /\ resp'.status = 404 /\ resp'.detail = "User not found"
                        /\ users' = users
       /\ \A c \in UserIds :
            (resp.op = "delete_user" /\ resp.status = 204
               /\ resp'.op = "read_user" /\ resp'.target = resp.target
               /\ Authenticates(resp'.presented, c))
                => resp'.status = 404 /\ resp'.detail = "User not found"]_vars

\* a barber has deleted another user's record and is still in the store
C11_Witness ==
    /\ resp.op = "delete_user" /\ resp.status = 204
    /\ resp.caller # resp.target
    /\ resp.caller \in DOMAIN users

\* the columns that the payload p names: its fields, a non-empty password
\* standing for the password hash and an empty or null one for nothing
PayloadColumns(p) ==
    (DOMAIN p \ {"password"})
      \cup (IF "password" \in DOMAIN p /\ p["password"] \notin {None, EmptyPassword}
            THEN {"hashed_password"} ELSE {})

\* the step answers an update with 200
SuccessfulUpdate == resp'.op = "update_user" /\ resp'.status = 200

\* no record is added or removed and every record but i is unchanged
OthersUnchanged(i) ==
    /\ DOMAIN users' = DOMAIN users
    /\ \A j \in DOMAIN users \ {i} : users'[j] = users[j]

\* C12 (as claimed): a successful update changes, on the target record, only
\* the attributes present in the payload; every attribute that is not present
\* and every other record are unchanged
C12_AsClaimed ==
    [][SuccessfulUpdate =>
          /\ OthersUnchanged(resp'.target)
          /\ \A f \in DOMAIN users[resp'.target] \ PayloadColumns(resp'.body) :
                users'[resp'.target][f] = users[resp'.target][f]]_vars

\* C12 (amended): the update timestamp is the one attribute outside the
\* payload that a successful update may change: it is set to the time of the
\* request when a column changes and is otherwise left as it was; the
\* attributes present take the payload's values, a non-empty password as its
\* hash; every other attribute and every other record are unchanged
C12_MergeOnlyPresent ==
    [][SuccessfulUpdate =>
          LET i == resp'.target
              p == resp'.body
          IN  /\ OthersUnchanged(i)
              /\ \A f \in (DOMAIN users[i] \ {"updated_at"}) \ PayloadColumns(p) :
                    users'[i][f] = users[i][f]
              /\ \A f \in DOMAIN p \ {"password"} : users'[i][f] = p[f]
              /\ "hashed_password" \in PayloadColumns(p) =>
                    users'[i].hashed_password = get_password_hash(p["password"])
              /\ users'[i].updated_at \in {users[i].updated_at, Timestamp(now)}
              /\ (\E f \in DOMAIN users[i] \ {"updated_at"} : users'[i][f] # users[i][f])
                    => users'[i].updated_at = Timestamp(now)]_vars

\* a password was changed on a record whose first name had been set before,
\* next to a second record
C12_Witness ==
    /\ resp.op = "update_user" /\ resp.status = 200
    /\ "password" \in DOMAIN resp.body
    /\ resp.target \in DOMAIN users
    /\ users[resp.target].first_name = "Ann"
    /\ users[resp.target].hashed_password = get_password_hash("hunter22")
    /\ Cardinality(DOMAIN users) = 2

\* C13: a token made at time t0 carries the expiry t0 + 30 minutes and its
\* user's id as subject; a protected request that presents it after that
\* expiry gets 401; until then, whatever requests have been handled before,
\* it authenticates its subject as long as that user exists and is active; a
\* login that answers 200 hands out that token
C13_TokenLifetime ==
    [][/\ \A i \in TokenSubjects, t0 \in IssueTimes :
            LET token == create_access_token(i, ACCESS_TOKEN_EXPIRE_MINUTES, t0)
            IN  /\ token.claims.exp = t0 + 30
                /\ token.claims.sub = str(i)
                /\ (resp'.op \in ProtectedOps /\ resp'.presented = token)
                      => /\ now > t0 + 30 => resp'.status = 401 /\ users' = users
                         /\ (now <= t0 + 30 /\ i \in DOMAIN users
                               /\ users[i].is_active = True)
                              => /\ resp'.caller = i
                                 /\ resp'.status \notin {400, 401}
       /\ (resp'.op \in {"login_for_access_token", "login_with_email"}
             /\ resp'.status = 200)
            => resp'.token = jwt_encode([exp |-> now + 30, sub |-> str(resp'.caller)],
                                        SECRET_KEY)]_vars

\* a token made at time 0 was accepted at its expiry, after the password of
\* its user had been changed
C13_Witness ==
    /\ resp.op = "read_users_me" /\ resp.status = 200
    /\ resp.presented = jwt_encode([exp |-> 30, sub |-> str(1)], SECRET_KEY)
    /\ now = 30
    /\ users[1].hashed_password = get_password_hash("hunter22")

\* the barber records of the store in the store's order, and the positions
\* skip <= k < skip + limit of a sequence (positions counted from 0)
BarberRecords == Ordered({i \in DOMAIN users : users[i].is_barber = True})

RECURSIVE Positions(_, _, _, _)
Positions(seq, k, skip, limit) ==
    IF k > Len(seq) THEN <<>>
    ELSE (IF skip <= k - 1 /\ k - 1 < skip + limit THEN <<seq[k]>> ELSE <<>>)
            \o Positions(seq, k + 1, skip, limit)

\* C14: list barbers, called without any token, returns for every skip and
\* limit only records whose barber flag is true, at most limit of them (none
\* for a limit below 0), and exactly the window [skip, skip + limit) of the
\* barber records in store order
C14_BarberWindow ==
    [][resp'.op = "read_barbers" =>
          /\ resp'.status = 200
          /\ \A k \in 1..Len(resp'.listed) : users[resp'.listed[k]].is_barber = True
          /\ Len(resp'.listed) <= resp'.page.limit \/ resp'.listed = <<>>
          /\ resp'.listed = Positions(BarberRecords, 1, resp'.page.skip, resp'.page.limit)]_vars

\* C15: a barber flag turns from false to true only in an update request
\* whose authenticated caller is a barber at that time, so a user who is no
\* barber never grants the role to anyone, the user itself included
C15_NoSelfGrant ==
    [][\A i \in DOMAIN users :
          (users[i].is_barber = False /\ i \in DOMAIN users'
             /\ users'[i].is_barber = True)
              => /\ resp'.op = "update_user"
                 /\ resp'.caller \in DOMAIN users
                 /\ users[resp'.caller].is_barber = True]_vars

\* C16: once a user is deleted, a token of that user is rejected with 401 by
\* every later protected request, whatever is registered after the deletion:
\* in the state that the request following a successful delete leaves, the
\* dependency in front of the protected operations answers the deleted
\* user's token with 401, since no later record takes over the deleted id
C16_DeletedTokenStaysRejected ==
    [][(resp.op = "delete_user" /\ resp.status = 204)
          => /\ get_current_user(users', TokenOf(resp.target), now').status = 401
             /\ resp.target \notin DOMAIN users']_vars
====
